---- MODULE Spec2Model ----
(***************************************************************************)
(* Model of app.py: the /compress endpoint of the PDF compressor backend.  *)
(* Resolutions (dpi) are held as integers in units of 1/256 dpi, which     *)
(* represents every value the bisection can produce exactly (at most 8     *)
(* halvings of an integer range).  Strings that the code parses are held   *)
(* as sequences of one-character strings.                                  *)
(***************************************************************************)
EXTENDS Integers, Sequences, FiniteSets, TLC

\* ---------------------------------------------------------------- constants
MAX_UPLOAD_MB == 200
ALLOWED_EXTENSIONS == { <<"p", "d", "f">> }
GS_BINARY_CANDIDATES == << "gs", "gswin64c", "gswin32c" >>
MAX_ITERATIONS == 8
MIN_DPI == 72
TOLERANCE == 1024 * 10
MiB == 1024 * 1024
\* fixed-point unit of a resolution: 1 dpi = SCALE units
SCALE == 256

None == "None"
NoPath == "None"
\* request.form.get(...) of a field the request does not carry
FormNone == << "None" >>
\* float('inf') of best_size_diff; every real distance is >= 0
INF_DIFF == -1

\* ------------------------------------------------------------ string helpers
UpperChars == << "A", "B", "C", "D", "E", "F", "G", "H", "I", "J", "K", "L", "M",
                 "N", "O", "P", "Q", "R", "S", "T", "U", "V", "W", "X", "Y", "Z" >>
LowerChars == << "a", "b", "c", "d", "e", "f", "g", "h", "i", "j", "k", "l", "m",
                 "n", "o", "p", "q", "r", "s", "t", "u", "v", "w", "x", "y", "z" >>
Digits == << "0", "1", "2", "3", "4", "5", "6", "7", "8", "9" >>

LowerChar(c) ==
    IF \E i \in 1..26 : UpperChars[i] = c
    THEN LowerChars[CHOOSE i \in 1..26 : UpperChars[i] = c]
    ELSE c

\* str.lower()
Lower(s) == [i \in 1..Len(s) |-> LowerChar(s[i])]

IsDigit(c) == \E i \in 1..10 : Digits[i] = c
DigitVal(c) == (CHOOSE i \in 1..10 : Digits[i] = c) - 1

\* position of the last '.', 0 when there is none
LastDot(s) ==
    IF \E i \in 1..Len(s) : s[i] = "."
    THEN CHOOSE i \in 1..Len(s) : s[i] = "." /\ \A j \in (i+1)..Len(s) : s[j] # "."
    ELSE 0

\* '.' in filename and filename.rsplit('.', 1)[1].lower() in ALLOWED_EXTENSIONS
allowed_file(filename) ==
    /\ LastDot(filename) # 0
    /\ Lower(SubSeq(filename, LastDot(filename) + 1, Len(filename))) \in ALLOWED_EXTENSIONS

\* file_size_mb(stream)[0] > limit, for the float mb = size / (1024 * 1024):
\* the division by a power of two is exact, so the comparison is on bytes
SizeMbExceeds(size, limit_mb) == size > limit_mb * MiB

\* ------------------------------------------------------------ float parsing
\* value of a digit string read left to right
RECURSIVE DigitsValue(_)
DigitsValue(s) ==
    IF Len(s) = 0 THEN 0
    ELSE 10 * DigitsValue(SubSeq(s, 1, Len(s) - 1)) + DigitVal(s[Len(s)])

RECURSIVE Pow10(_)
Pow10(n) == IF n = 0 THEN 1 ELSE 10 * Pow10(n - 1)

AllDigits(s) == \A i \in 1..Len(s) : IsDigit(s[i])

\* the unsigned part of a float literal: digits [ '.' digits ], nan, inf
ParseUnsigned(s, sign) ==
    LET d == LastDot(s) IN
    IF Lower(s) = <<"n", "a", "n">> THEN [kind |-> "nan", num |-> 0, den |-> 1]
    ELSE IF Lower(s) = <<"i", "n", "f">> THEN [kind |-> "inf", num |-> sign, den |-> 1]
    ELSE IF d = 0
         THEN IF Len(s) > 0 /\ AllDigits(s)
              THEN [kind |-> "num", num |-> sign * DigitsValue(s), den |-> 1]
              ELSE [kind |-> "err", num |-> 0, den |-> 1]
    ELSE LET ip == SubSeq(s, 1, d - 1)
             fp == SubSeq(s, d + 1, Len(s))
         IN  IF AllDigits(ip) /\ AllDigits(fp) /\ Len(ip) + Len(fp) > 0
             THEN [kind |-> "num", num |-> sign * DigitsValue(ip \o fp), den |-> Pow10(Len(fp))]
             ELSE [kind |-> "err", num |-> 0, den |-> 1]

\* float(s) for a non-empty string; kind "err" is the ValueError
ParseFloat(s) ==
    IF s[1] = "-" THEN ParseUnsigned(Tail(s), -1)
    ELSE IF s[1] = "+" THEN ParseUnsigned(Tail(s), 1)
    ELSE ParseUnsigned(s, 1)

\* float(target_size_mb) if target_size_mb else None
ParseTarget(raw) ==
    IF raw = FormNone \/ raw = <<>> THEN [kind |-> "none", num |-> 0, den |-> 1]
    ELSE ParseFloat(raw)

\* target_size_mb >= mb, with mb = orig_bytes / (1024 * 1024)
TargetGeqMb(t, orig_bytes) ==
    CASE t.kind = "nan" -> FALSE
      [] t.kind = "inf" -> t.num > 0
      [] OTHER -> t.num * MiB >= orig_bytes * t.den

\* integer division truncating toward zero, as int() of a float does
TruncDiv(a, b) == IF a >= 0 THEN a \div b ELSE -((-a) \div b)

\* int(target_size_mb * 1024 * 1024); raises for nan and infinities
TargetBytesRaises(t) == t.kind \in {"nan", "inf"}
TargetBytes(t) == TruncDiv(t.num * MiB, t.den)

\* ------------------------------------------------------------ quality tiers
quality_map(q) ==
    CASE q = "high"   -> [dpi |-> 300, pdfsettings |-> "/prepress"]
      [] q = "medium" -> [dpi |-> 200, pdfsettings |-> "/printer"]
      [] q = "low"    -> [dpi |-> 150, pdfsettings |-> "/ebook"]

QualityName(s) ==
    CASE s = <<"h", "i", "g", "h">> -> "high"
      [] s = <<"m", "e", "d", "i", "u", "m">> -> "medium"
      [] s = <<"l", "o", "w">> -> "low"
      [] OTHER -> "other"

\* request.form.get('quality', 'high').lower(), replaced by 'high' when unknown
ResolveQuality(raw) ==
    LET q == IF raw = FormNone THEN "high" ELSE QualityName(Lower(raw))
    IN  IF q \in {"high", "medium", "low"} THEN q ELSE "high"

\* ------------------------------------------------------------------- inputs
\* handler instances; Spec serves its requests one after the other in instance 1
Reqs == {1, 2}

Str_a_PDF == <<"a", ".", "P", "D", "F">>
Filenames == { <<>>, <<"n", "o", "t", "e", "s">>, <<"a", ".", "t", "x", "t">>,
               <<"a", ".", "p", "d", "f", ".", "e", "x", "e">>, Str_a_PDF }
UploadSizes == { 0, 10 * MiB, MAX_UPLOAD_MB * MiB + 1 }
QualityInputs == { FormNone, <<"M", "e", "d", "i", "u", "m">>, <<"l", "o", "w">>,
                   <<"b", "e", "s", "t">> }
TargetInputs == { FormNone, <<>>, <<"a", "b", "c">>, <<"1", ".", "2", ".", "3">>,
                  <<"0">>, <<"-", "1">>, <<"n", "a", "n">>, <<"i", "n", "f">>,
                  <<"5">>, <<"1", "0">>, <<"1", "2", ".", "5">> }

NoFileRequest ==
    [hasFile |-> FALSE, filename |-> <<>>, size |-> 0, quality |-> FormNone, targetSizeMB |-> FormNone]

\* requests that exercise the checks on the uploaded file
FileRequests ==
    { [hasFile |-> TRUE, filename |-> f, size |-> s, quality |-> FormNone, targetSizeMB |-> t] :
        f \in Filenames, s \in UploadSizes, t \in {FormNone, <<"a", "b", "c">>, <<"5">>} }

\* requests with an acceptable file, over every quality and target input
FormRequests ==
    { [hasFile |-> TRUE, filename |-> Str_a_PDF, size |-> 10 * MiB, quality |-> q,
       targetSizeMB |-> t] : q \in QualityInputs, t \in TargetInputs \ { <<"0">>, <<"-", "1">> } }

\* zero and negative targets, and the empty upload
EdgeRequests ==
    { [hasFile |-> TRUE, filename |-> Str_a_PDF, size |-> 10 * MiB, quality |-> <<"l", "o", "w">>,
       targetSizeMB |-> t] : t \in { <<"0">>, <<"-", "1">> } }
    \cup
    { [hasFile |-> TRUE, filename |-> Str_a_PDF, size |-> 0, quality |-> <<"l", "o", "w">>,
       targetSizeMB |-> t] : t \in { FormNone, <<"-", "1">>, <<"n", "a", "n">> } }
    \cup
    { [hasFile |-> TRUE, filename |-> Str_a_PDF, size |-> 0,
       quality |-> <<"m", "e", "d", "i", "u", "m">>, targetSizeMB |-> <<"-", "1">>] }

\* the requests that are also served concurrently
ConcRequests ==
    { NoFileRequest,
      [hasFile |-> TRUE, filename |-> Str_a_PDF, size |-> 6 * MiB,
       quality |-> <<"M", "e", "d", "i", "u", "m">>, targetSizeMB |-> FormNone],
      [hasFile |-> TRUE, filename |-> Str_a_PDF, size |-> 6 * MiB,
       quality |-> <<"l", "o", "w">>, targetSizeMB |-> <<"5">>] }

\* the requests that are also run a second time
RerunRequests ==
    { [hasFile |-> TRUE, filename |-> Str_a_PDF, size |-> 10 * MiB, quality |-> q,
       targetSizeMB |-> t] :
        q \in { <<"l", "o", "w">>, <<"M", "e", "d", "i", "u", "m">> }, t \in { FormNone, <<"5">> } }

Requests == {NoFileRequest} \cup FileRequests \cup FormRequests \cup EdgeRequests \cup ConcRequests

\* sizes a successful run of the tool may leave in its output file
CandidateSizes == { 5 * MiB - 20000, 5 * MiB + 5000, 5 * MiB + 30000 }
\* the 6 MiB document never comes out above 5 MiB + 5000 bytes
CandidateSizesOf(input) ==
    IF input = 6 * MiB THEN { 5 * MiB - 20000, 5 * MiB + 5000 } ELSE CandidateSizes
\* sizes of the file a killed or failing run of the tool may leave behind
NumPartialSizes == 1
PartialSizes == { 4096 * k : k \in 1..NumPartialSizes }

\* what shutil.which finds on the host: nothing, gs and gswin64c, only gswin32c
WhichEnvs ==
    { [n \in {"gs", "gswin64c", "gswin32c"} |-> NoPath],
      [n \in {"gs", "gswin64c", "gswin32c"} |->
          IF n = "gswin32c" THEN NoPath ELSE IF n = "gs" THEN "/usr/bin/gs" ELSE "/usr/bin/gswin64c"],
      [n \in {"gs", "gswin64c", "gswin32c"} |->
          IF n = "gswin32c" THEN "/usr/bin/gswin32c" ELSE NoPath] }

\* -------------------------------------------------------------------- state
VARIABLES
    GS_BIN,          \* module global: path of the tool, or None
    booted,          \* the module body (lines 37-41) has run
    probes,          \* number of find_gs calls made so far
    pc,              \* per request: position of the handler
    req,             \* per request: the incoming request
    quality,         \* per request: resolved quality tier
    target_size_mb,  \* per request: parsed targetSizeMB
    target_bytes,    \* per request
    low, high,       \* per request: search bounds, in 1/SCALE dpi
    best_candidate,  \* per request: path of the best output, or NoCand
    best_size_diff,  \* per request
    best_dpi,        \* per request
    iter,            \* per request: loop variable i
    tmpdir,          \* per request: the temporary directory exists
    files,           \* per request: path -> content of the temporary directory
    response,        \* per request: the response returned, or NoResponse
    invs,            \* per request: the tool invocations made, in order
    tmpCreated       \* per request: temporary directories and files created

vars == << GS_BIN, booted, probes, pc, req, quality, target_size_mb, target_bytes,
           low, high, best_candidate, best_size_diff, best_dpi, iter, tmpdir, files,
           response, invs, tmpCreated >>

globalVars == << GS_BIN, booted, probes >>
searchVars == << low, high, best_candidate, best_size_diff, best_dpi, iter >>

\* paths inside the temporary directory
InPath == <<"in", 0>>
CompressedPath == <<"compressed", 0>>
FallbackPath == <<"fallback", 0>>
OutPath(n) == <<"out", n>>
NoCand == <<"none", 0>>

\* content of a file: its size, the invocation that wrote it (0: the upload),
\* whether that invocation completed, and the integer knob it ran with
UploadContent(size) == [size |-> size, by |-> 0, ok |-> TRUE, dpi |-> 0]
NoContent == [size |-> -1, by |-> -1, ok |-> FALSE, dpi |-> 0]
EmptyDir == <<>>

NoRequest == [hasFile |-> FALSE, filename |-> <<>>, size |-> -1, quality |-> FormNone,
              targetSizeMB |-> FormNone]
NoTarget == [kind |-> "none", num |-> 0, den |-> 1]
NoResponse == [status |-> 0, error |-> None, body |-> NoContent, origSize |-> -1,
               compressedSize |-> -1, quality |-> None]

ErrorResponse(status, msg) ==
    [status |-> status, error |-> msg, body |-> NoContent, origSize |-> -1,
     compressedSize |-> -1, quality |-> None]

\* send_file(io.BytesIO(compressed_bytes), headers=...)
FileResponse(content, orig_bytes, q) ==
    [status |-> 200, error |-> None, body |-> content, origSize |-> orig_bytes,
     compressedSize |-> content.size, quality |-> q]

Init ==
    /\ GS_BIN = None
    /\ booted = FALSE
    /\ probes = 0
    /\ pc = [r \in Reqs |-> "idle"]
    /\ req = [r \in Reqs |-> NoRequest]
    /\ quality = [r \in Reqs |-> None]
    /\ target_size_mb = [r \in Reqs |-> NoTarget]
    /\ target_bytes = [r \in Reqs |-> 0]
    /\ low = [r \in Reqs |-> 0]
    /\ high = [r \in Reqs |-> 0]
    /\ best_candidate = [r \in Reqs |-> NoCand]
    /\ best_size_diff = [r \in Reqs |-> INF_DIFF]
    /\ best_dpi = [r \in Reqs |-> 0]
    /\ iter = [r \in Reqs |-> 0]
    /\ tmpdir = [r \in Reqs |-> FALSE]
    /\ files = [r \in Reqs |-> EmptyDir]
    /\ response = [r \in Reqs |-> NoResponse]
    /\ invs = [r \in Reqs |-> <<>>]
    /\ tmpCreated = [r \in Reqs |-> 0]

\* ------------------------------------------------------------------ startup
\* find_gs: the first candidate that shutil.which finds; None stands for the
\* RuntimeError, which the module body turns into GS_BIN = None
RECURSIVE FirstFound(_, _)
FirstFound(env, names) ==
    IF names = <<>> THEN None
    ELSE IF env[Head(names)] # NoPath THEN env[Head(names)]
    ELSE FirstFound(env, Tail(names))

find_gs(env) == FirstFound(env, GS_BINARY_CANDIDATES)

\* module body, lines 37-41
Startup ==
    /\ ~booted
    /\ \E env \in WhichEnvs : GS_BIN' = find_gs(env)
    /\ booted' = TRUE
    /\ probes' = probes + 1
    /\ UNCHANGED << pc, req, quality, target_size_mb, target_bytes, searchVars, tmpdir,
                    files, response, invs, tmpCreated >>

\* --------------------------------------------------------------- validation
\* a request arrives and the handler is entered
ReceiveFrom(r, requests) ==
    /\ booted
    /\ pc[r] = "idle"
    /\ \E q \in requests : req' = [req EXCEPT ![r] = q]
    /\ pc' = [pc EXCEPT ![r] = "validate"]
    /\ UNCHANGED << globalVars, quality, target_size_mb, target_bytes, searchVars, tmpdir,
                    files, response, invs, tmpCreated >>

Receive(r) == ReceiveFrom(r, Requests)

ValidationError_NoSizeCheck(gs, q) ==
    IF gs = None THEN ErrorResponse(500, "Ghostscript not available on server")
    ELSE IF ~q.hasFile THEN ErrorResponse(400, "No file part")
    ELSE IF q.filename = <<>> THEN ErrorResponse(400, "No selected file")
    ELSE IF ~allowed_file(q.filename) THEN ErrorResponse(400, "Invalid file type; PDF required")
    ELSE IF ParseTarget(q.targetSizeMB).kind = "err" THEN ErrorResponse(400, "Invalid targetSizeMB")
    ELSE NoResponse

ValidationError_NoToolCheck(gs, q) ==
    IF ~q.hasFile THEN ErrorResponse(400, "No file part")
    ELSE IF q.filename = <<>> THEN ErrorResponse(400, "No selected file")
    ELSE IF ~allowed_file(q.filename) THEN ErrorResponse(400, "Invalid file type; PDF required")
    ELSE IF SizeMbExceeds(q.size, MAX_UPLOAD_MB) THEN ErrorResponse(400, "File too large")
    ELSE IF ParseTarget(q.targetSizeMB).kind = "err" THEN ErrorResponse(400, "Invalid targetSizeMB")
    ELSE NoResponse

\* lines 88-114: the error response the checks produce, NoResponse when they pass
ValidationError(gs, q) ==
    IF gs = None THEN ErrorResponse(500, "Ghostscript not available on server")
    ELSE IF ~q.hasFile THEN ErrorResponse(400, "No file part")
    ELSE IF q.filename = <<>> THEN ErrorResponse(400, "No selected file")
    ELSE IF ~allowed_file(q.filename) THEN ErrorResponse(400, "Invalid file type; PDF required")
    ELSE IF SizeMbExceeds(q.size, MAX_UPLOAD_MB) THEN ErrorResponse(400, "File too large")
    ELSE IF ParseTarget(q.targetSizeMB).kind = "err" THEN ErrorResponse(400, "Invalid targetSizeMB")
    ELSE NoResponse

IsSinglePass_NoTargetOnly(t, orig_bytes) == t.kind = "none"

\* line 129: target_size_mb is None or target_size_mb >= mb
IsSinglePass(t, orig_bytes) == t.kind = "none" \/ TargetGeqMb(t, orig_bytes)

\* lines 88-129: validate, resolve the tier, choose the path
Validate(r) ==
    /\ pc[r] = "validate"
    /\ LET err == ValidationError(GS_BIN, req[r]) IN
       IF err # NoResponse
       THEN /\ response' = [response EXCEPT ![r] = err]
            /\ pc' = [pc EXCEPT ![r] = "responded"]
            /\ UNCHANGED << quality, target_size_mb >>
       ELSE /\ quality' = [quality EXCEPT ![r] = ResolveQuality(req[r].quality)]
            /\ target_size_mb' = [target_size_mb EXCEPT ![r] = ParseTarget(req[r].targetSizeMB)]
            /\ pc' = [pc EXCEPT ![r] =
                        IF IsSinglePass(ParseTarget(req[r].targetSizeMB), req[r].size)
                        THEN "single" ELSE "search"]
            /\ UNCHANGED response
    /\ UNCHANGED << globalVars, req, target_bytes, searchVars, tmpdir, files, invs, tmpCreated >>

\* ---------------------------------------------------------------- the tool
\* int(dpi) of a resolution held in 1/SCALE dpi
IntDpi(dpi) == dpi \div SCALE

\* sizes already produced in this request for an integer knob: the tool's
\* output size is a function of (input, knob, preset)
SizesFor(input, log, knob) ==
    IF \E k \in 1..Len(log) : log[k].ok /\ log[k].knob = knob
    THEN { log[k].size : k \in { j \in 1..Len(log) : log[j].ok /\ log[j].knob = knob } }
    ELSE CandidateSizesOf(input)

\* outcomes of subprocess.run(args, check=True, timeout=timeout): a completed
\* run, or a failure (CalledProcessError on a non-zero exit, TimeoutExpired
\* after the kill) that left the output path untouched or holding a partial file
ToolOutcomes(input, log, knob) ==
    { [ok |-> TRUE, wrote |-> TRUE, size |-> s, exc |-> None] : s \in SizesFor(input, log, knob) }
    \cup { [ok |-> FALSE, wrote |-> FALSE, size |-> 0, exc |-> e] :
             e \in {"CalledProcessError", "TimeoutExpired"} }
    \cup { [ok |-> FALSE, wrote |-> TRUE, size |-> s, exc |-> e] :
             s \in PartialSizes, e \in {"CalledProcessError", "TimeoutExpired"} }

Replayed_Any(known, knob, pdfsettings, outs) == outs

\* the outcomes in outs that agree with what the tool did in the invocations
\* of known at the same resolution and preset: the tool of a second run on the
\* same input, when it is a fixed function of (input, resolution, preset)
Replayed(known, knob, pdfsettings, outs) ==
    { o \in outs :
        \A k \in 1..Len(known) :
            (known[k].knob = knob /\ known[k].pdfsettings = pdfsettings) =>
                /\ o.ok = known[k].ok
                /\ o.size = known[k].size
                /\ o.exc = known[k].exc }

TmpDirOf_Shared(r) == 1

\* tempfile.TemporaryDirectory() makes a directory of its own for every call
TmpDirOf(r) == r

\* the record of one compress_with_gs call
Invocation(kind, gs, out_path, dpi, pdfsettings, o) ==
    [kind |-> kind, gs |-> gs, path |-> out_path, dpi |-> dpi, knob |-> IntDpi(dpi),
     pdfsettings |-> pdfsettings, ok |-> o.ok, size |-> o.size, exc |-> o.exc]

\* the temporary directory after the n-th invocation ran with outcome o
AfterTool(fs, out_path, dpi, o, n) ==
    IF o.wrote
    THEN (out_path :> [size |-> o.size, by |-> n, ok |-> o.ok, dpi |-> IntDpi(dpi)]) @@ fs
    ELSE fs

Cleanup_Leaves(fs) == fs

\* TemporaryDirectory.__exit__: the directory and everything in it is removed
Cleanup(fs) == EmptyDir

\* unhandled exception inside the handler: the framework answers 500
InternalError == ErrorResponse(500, "Internal Server Error")

\* f"{compressed_size / orig_bytes:.4f}" raises ZeroDivisionError
RatioRaises(orig_bytes) == orig_bytes = 0

StartDpi(q) == quality_map(q).dpi * SCALE
Preset(q) == quality_map(q).pdfsettings

\* -------------------------------------------------------------- single pass
\* lines 131-136: create the directory, copy the upload into it
SinglePassSetup(r) ==
    /\ pc[r] = "single"
    /\ tmpdir' = [tmpdir EXCEPT ![r] = TRUE]
    /\ files' = [files EXCEPT ![TmpDirOf(r)] = (InPath :> UploadContent(req[r].size))]
    /\ tmpCreated' = [tmpCreated EXCEPT ![r] = @ + 2]
    /\ pc' = [pc EXCEPT ![r] = "single_invoke"]
    /\ UNCHANGED << globalVars, req, quality, target_size_mb, target_bytes, searchVars,
                    response, invs >>

\* lines 138-165: one invocation at the tier's dpi, then the response; the
\* with block is left on every return, which removes the directory
SinglePassInvokeOn(r, known) ==
    /\ pc[r] = "single_invoke"
    /\ \E o \in Replayed(known, IntDpi(StartDpi(quality[r])), Preset(quality[r]),
                      ToolOutcomes(req[r].size, invs[r], IntDpi(StartDpi(quality[r])))) :
         LET n == Len(invs[r]) + 1
             after == AfterTool(files[TmpDirOf(r)], CompressedPath, StartDpi(quality[r]), o, n)
         IN  /\ invs' = [invs EXCEPT ![r] =
                   Append(@, Invocation("single", GS_BIN, CompressedPath, StartDpi(quality[r]),
                                        Preset(quality[r]), o))]
             /\ response' = [response EXCEPT ![r] =
                   IF o.exc = "CalledProcessError" THEN ErrorResponse(500, "Ghostscript failed")
                   ELSE IF ~o.ok THEN ErrorResponse(500, "Compression error")
                   ELSE IF RatioRaises(req[r].size) THEN InternalError
                   ELSE FileResponse(after[CompressedPath], req[r].size, quality[r])]
             /\ files' = [files EXCEPT ![TmpDirOf(r)] = Cleanup(after)]
    /\ tmpdir' = [tmpdir EXCEPT ![r] = FALSE]
    /\ pc' = [pc EXCEPT ![r] = "responded"]
    /\ UNCHANGED << globalVars, req, quality, target_size_mb, target_bytes, searchVars,
                    tmpCreated >>

SinglePassInvoke(r) == SinglePassInvokeOn(r, << >>)

\* ------------------------------------------------------------------- search
\* lines 169-180: initialise the search state, create the directory, copy the upload
SearchSetup(r) ==
    /\ pc[r] = "search"
    /\ low' = [low EXCEPT ![r] = MIN_DPI * SCALE]
    /\ high' = [high EXCEPT ![r] = StartDpi(quality[r])]
    /\ best_candidate' = [best_candidate EXCEPT ![r] = NoCand]
    /\ best_size_diff' = [best_size_diff EXCEPT ![r] = INF_DIFF]
    /\ best_dpi' = [best_dpi EXCEPT ![r] = 0]
    /\ tmpdir' = [tmpdir EXCEPT ![r] = TRUE]
    /\ files' = [files EXCEPT ![TmpDirOf(r)] = (InPath :> UploadContent(req[r].size))]
    /\ tmpCreated' = [tmpCreated EXCEPT ![r] = @ + 2]
    /\ pc' = [pc EXCEPT ![r] = "target"]
    /\ UNCHANGED << globalVars, req, quality, target_size_mb, target_bytes, iter, response, invs >>

\* line 183: target_bytes = int(target_size_mb * 1024 * 1024)
ComputeTarget(r) ==
    /\ pc[r] = "target"
    /\ IF TargetBytesRaises(target_size_mb[r])
       THEN /\ response' = [response EXCEPT ![r] = InternalError]
            /\ files' = [files EXCEPT ![TmpDirOf(r)] = Cleanup(@)]
            /\ tmpdir' = [tmpdir EXCEPT ![r] = FALSE]
            /\ pc' = [pc EXCEPT ![r] = "responded"]
            /\ UNCHANGED << target_bytes, iter >>
       ELSE /\ target_bytes' = [target_bytes EXCEPT ![r] = TargetBytes(target_size_mb[r])]
            /\ iter' = [iter EXCEPT ![r] = 0]
            /\ pc' = [pc EXCEPT ![r] = "loop"]
            /\ UNCHANGED << response, files, tmpdir >>
    /\ UNCHANGED << globalVars, req, quality, target_size_mb, low, high, best_candidate,
                    best_size_diff, best_dpi, invs, tmpCreated >>

Abs(x) == IF x < 0 THEN -x ELSE x

Mid_NoHalve(lo, hi) == lo + hi

\* line 186: mid = (low + high) / 2.0
Mid(lo, hi) == (lo + hi) \div 2

IsBetter_OrEqual(absdiff, best) == best = INF_DIFF \/ absdiff <= best

\* line 200: abs(diff) < best_size_diff
IsBetter(absdiff, best) == best = INF_DIFF \/ absdiff < best

WithinTolerance_Never(absdiff) == FALSE

\* line 206: abs(diff) <= 1024 * 10
WithinTolerance(absdiff) == absdiff <= TOLERANCE

NextLow_Always(lo, hi, mid, candidate_size, tb) == mid

NextHigh_Stale(lo, hi, mid, candidate_size, tb) == hi

\* lines 210-214
NextHigh(lo, hi, mid, candidate_size, tb) == IF candidate_size > tb THEN mid ELSE hi
NextLow(lo, hi, mid, candidate_size, tb) == IF candidate_size > tb THEN lo ELSE mid

RangeCollapsed_Two(lo, hi) == hi - lo < 2 * SCALE

\* line 217: (high - low) < 1.0
RangeCollapsed(lo, hi) == hi - lo < SCALE

LoopEnds_Never(lo, hi, i) == FALSE

\* lines 185 and 217-218: the range stop, or range(MAX_ITERATIONS) is exhausted
LoopEnds(lo, hi, i) == RangeCollapsed(lo, hi) \/ i + 1 >= MAX_ITERATIONS

\* lines 185-218: one iteration of the loop
SearchIterOn(r, known) ==
    /\ pc[r] = "loop"
    /\ LET mid == Mid(low[r], high[r])
           out_path == OutPath(IntDpi(mid))
           n == Len(invs[r]) + 1
       IN  \E o \in Replayed(known, IntDpi(mid), Preset(quality[r]),
                         ToolOutcomes(req[r].size, invs[r], IntDpi(mid))) :
             LET after == AfterTool(files[TmpDirOf(r)], out_path, mid, o, n)
                 candidate_size == after[out_path].size
                 absdiff == Abs(candidate_size - target_bytes[r])
                 better == IsBetter(absdiff, best_size_diff[r])
                 hi2 == NextHigh(low[r], high[r], mid, candidate_size, target_bytes[r])
                 lo2 == NextLow(low[r], high[r], mid, candidate_size, target_bytes[r])
             IN  /\ invs' = [invs EXCEPT ![r] =
                       Append(@, Invocation("search", GS_BIN, out_path, mid, Preset(quality[r]), o))]
                 /\ files' = [files EXCEPT ![TmpDirOf(r)] = after]
                 /\ IF ~o.ok
                    THEN /\ pc' = [pc EXCEPT ![r] = "resolve"]
                         /\ UNCHANGED searchVars
                    ELSE /\ best_size_diff' = [best_size_diff EXCEPT ![r] =
                                                  IF better THEN absdiff ELSE @]
                         /\ best_candidate' = [best_candidate EXCEPT ![r] =
                                                  IF better THEN out_path ELSE @]
                         /\ best_dpi' = [best_dpi EXCEPT ![r] = IF better THEN IntDpi(mid) ELSE @]
                         /\ IF WithinTolerance(absdiff)
                            THEN /\ pc' = [pc EXCEPT ![r] = "resolve"]
                                 /\ UNCHANGED << low, high, iter >>
                            ELSE /\ high' = [high EXCEPT ![r] = hi2]
                                 /\ low' = [low EXCEPT ![r] = lo2]
                                 /\ IF LoopEnds(lo2, hi2, iter[r])
                                    THEN /\ pc' = [pc EXCEPT ![r] = "resolve"]
                                         /\ UNCHANGED iter
                                    ELSE /\ pc' = [pc EXCEPT ![r] = "loop"]
                                         /\ iter' = [iter EXCEPT ![r] = @ + 1]
    /\ UNCHANGED << globalVars, req, quality, target_size_mb, target_bytes, tmpdir, response,
                    tmpCreated >>

SearchIter(r) == SearchIterOn(r, << >>)

\* lines 221-228: no candidate recorded, one invocation at MIN_DPI
FallbackOn(r, known) ==
    /\ pc[r] = "resolve"
    /\ best_candidate[r] = NoCand
    /\ \E o \in Replayed(known, IntDpi(MIN_DPI * SCALE), Preset(quality[r]),
                      ToolOutcomes(req[r].size, invs[r], IntDpi(MIN_DPI * SCALE))) :
         LET n == Len(invs[r]) + 1
             after == AfterTool(files[TmpDirOf(r)], FallbackPath, MIN_DPI * SCALE, o, n)
         IN  /\ invs' = [invs EXCEPT ![r] =
                   Append(@, Invocation("fallback", GS_BIN, FallbackPath, MIN_DPI * SCALE,
                                        Preset(quality[r]), o))]
             /\ IF o.ok
                THEN /\ best_candidate' = [best_candidate EXCEPT ![r] = FallbackPath]
                     /\ best_dpi' = [best_dpi EXCEPT ![r] = MIN_DPI]
                     /\ files' = [files EXCEPT ![TmpDirOf(r)] = after]
                     /\ UNCHANGED << response, tmpdir, pc >>
                ELSE /\ response' = [response EXCEPT ![r] = ErrorResponse(500, "Compression failed")]
                     /\ files' = [files EXCEPT ![TmpDirOf(r)] = Cleanup(after)]
                     /\ tmpdir' = [tmpdir EXCEPT ![r] = FALSE]
                     /\ pc' = [pc EXCEPT ![r] = "responded"]
                     /\ UNCHANGED << best_candidate, best_dpi >>
    /\ UNCHANGED << globalVars, req, quality, target_size_mb, target_bytes, low, high,
                    best_size_diff, iter, tmpCreated >>

Fallback(r) == FallbackOn(r, << >>)

\* lines 231-251: read the best candidate's file and send it
ReadResult(r) ==
    /\ pc[r] = "resolve"
    /\ best_candidate[r] # NoCand
    /\ response' = [response EXCEPT ![r] =
          IF RatioRaises(req[r].size) THEN InternalError
          ELSE FileResponse(files[TmpDirOf(r)][best_candidate[r]], req[r].size, quality[r])]
    /\ files' = [files EXCEPT ![TmpDirOf(r)] = Cleanup(@)]
    /\ tmpdir' = [tmpdir EXCEPT ![r] = FALSE]
    /\ pc' = [pc EXCEPT ![r] = "responded"]
    /\ UNCHANGED << globalVars, req, quality, target_size_mb, target_bytes, searchVars, invs,
                    tmpCreated >>

\* the handler has returned: its locals are gone and the next request can come
Finish(r) ==
    /\ pc[r] = "responded"
    /\ pc' = [pc EXCEPT ![r] = "idle"]
    /\ req' = [req EXCEPT ![r] = NoRequest]
    /\ quality' = [quality EXCEPT ![r] = None]
    /\ target_size_mb' = [target_size_mb EXCEPT ![r] = NoTarget]
    /\ target_bytes' = [target_bytes EXCEPT ![r] = 0]
    /\ low' = [low EXCEPT ![r] = 0]
    /\ high' = [high EXCEPT ![r] = 0]
    /\ best_candidate' = [best_candidate EXCEPT ![r] = NoCand]
    /\ best_size_diff' = [best_size_diff EXCEPT ![r] = INF_DIFF]
    /\ best_dpi' = [best_dpi EXCEPT ![r] = 0]
    /\ iter' = [iter EXCEPT ![r] = 0]
    /\ response' = [response EXCEPT ![r] = NoResponse]
    /\ invs' = [invs EXCEPT ![r] = <<>>]
    /\ tmpCreated' = [tmpCreated EXCEPT ![r] = 0]
    /\ UNCHANGED << globalVars, tmpdir, files >>

\* ------------------------------------------------------------ specification
Handle(r) ==
    \/ Receive(r)
    \/ Validate(r)
    \/ SinglePassSetup(r)
    \/ SinglePassInvoke(r)
    \/ SearchSetup(r)
    \/ ComputeTarget(r)
    \/ SearchIter(r)
    \/ Fallback(r)
    \/ ReadResult(r)
    \/ Finish(r)

\* one request at a time
Next == Startup \/ Handle(1)

Spec == Init /\ [][Next]_vars

\* two requests served at once, their steps interleaved
HandleConc(r) ==
    \/ ReceiveFrom(r, ConcRequests)
    \/ Validate(r)
    \/ SinglePassSetup(r)
    \/ SinglePassInvoke(r)
    \/ SearchSetup(r)
    \/ ComputeTarget(r)
    \/ SearchIter(r)
    \/ Fallback(r)
    \/ ReadResult(r)
    \/ Finish(r)

NextConc == Startup \/ HandleConc(1) \/ HandleConc(2)

SpecConc == Init /\ [][NextConc]_vars

\* one request served, then the same request served again by a tool that
\* repeats what it did for the same resolution and preset
FirstRun ==
    \/ ReceiveFrom(1, RerunRequests)
    \/ Validate(1)
    \/ SinglePassSetup(1)
    \/ SinglePassInvoke(1)
    \/ SearchSetup(1)
    \/ ComputeTarget(1)
    \/ SearchIter(1)
    \/ Fallback(1)
    \/ ReadResult(1)

ReceiveSame ==
    /\ pc[1] = "responded"
    /\ pc[2] = "idle"
    /\ req' = [req EXCEPT ![2] = req[1]]
    /\ pc' = [pc EXCEPT ![2] = "validate"]
    /\ UNCHANGED << globalVars, quality, target_size_mb, target_bytes, searchVars, tmpdir,
                    files, response, invs, tmpCreated >>

SecondRun ==
    \/ ReceiveSame
    \/ Validate(2)
    \/ SinglePassSetup(2)
    \/ SinglePassInvokeOn(2, invs[1])
    \/ SearchSetup(2)
    \/ ComputeTarget(2)
    \/ SearchIterOn(2, invs[1])
    \/ FallbackOn(2, invs[1])
    \/ ReadResult(2)

NextRerun == Startup \/ FirstRun \/ SecondRun

SpecRerun == Init /\ [][NextRerun]_vars

\* ------------------------------------------------------- claim vocabulary
Processing == {"single", "single_invoke", "search", "target", "loop", "resolve"}

\* the request of r passed every check of lines 88-114
Accepted(r) == quality[r] # None

\* the tier table as the specification states it
TierResolution(q) == CASE q = "high" -> 300 [] q = "medium" -> 200 [] q = "low" -> 150
TierPreset(q) == CASE q = "high" -> "/prepress" [] q = "medium" -> "/printer" [] q = "low" -> "/ebook"

\* no target, or a target of at least the original size
NoTargetOrAtLeastOriginal(r) ==
    \/ req[r].targetSizeMB \in {FormNone, <<>>}
    \/ target_size_mb[r].kind = "inf" /\ target_size_mb[r].num > 0
    \/ target_size_mb[r].kind = "num"
         /\ target_size_mb[r].num * MiB >= req[r].size * target_size_mb[r].den

\* indices of the successful search invocations of r
SearchSuccesses(r) == { k \in 1..Len(invs[r]) : invs[r][k].kind = "search" /\ invs[r][k].ok }

Distance(r, size) == Abs(size - target_bytes[r])

\* C1: a request that passed validation with no target, or a target >= the
\* original size, makes exactly one invocation, at the tier's starting
\* resolution with the tier's preset, never a search or fallback invocation,
\* and a returned document was produced at that resolution.
C1_SinglePassOnce ==
    \A r \in Reqs :
        (Accepted(r) /\ NoTargetOrAtLeastOriginal(r)) =>
            /\ Len(invs[r]) <= 1
            /\ \A k \in 1..Len(invs[r]) :
                  /\ invs[r][k].kind = "single"
                  /\ invs[r][k].dpi = TierResolution(quality[r]) * SCALE
                  /\ invs[r][k].knob = TierResolution(quality[r])
                  /\ invs[r][k].pdfsettings = TierPreset(quality[r])
            /\ pc[r] = "responded" =>
                  /\ Len(invs[r]) = 1
                  /\ response[r].status = 200 =>
                        /\ response[r].body.dpi = TierResolution(quality[r])
                        /\ response[r].body.by = 1

C1_Witness ==
    /\ pc[1] = "responded"
    /\ target_size_mb[1].kind = "num"
    /\ quality[1] = "medium"
    /\ response[1].status = 200
    /\ Len(invs[1]) = 1

\* C2: a request with a target below the original size makes at most
\* MAX_ITERATIONS + 1 = 9 invocations, whatever the tool does.
C2_InvocationBound ==
    \A r \in Reqs :
        (Accepted(r) /\ ~NoTargetOrAtLeastOriginal(r)) => Len(invs[r]) <= 9

C2_Witness ==
    /\ pc[1] = "responded"
    /\ ~NoTargetOrAtLeastOriginal(1)
    /\ Len(invs[1]) = 8
    /\ \E k \in 1..8 : ~invs[1][k].ok

\* C3: a document returned by the search path is at least as close to the
\* target as every candidate a successful search invocation produced.
C3_ReturnedIsClosest ==
    \A r \in Reqs :
        (pc[r] = "responded" /\ response[r].status = 200 /\ SearchSuccesses(r) # {}) =>
            \A k \in SearchSuccesses(r) :
                Distance(r, response[r].body.size) <= Distance(r, invs[r][k].size)

\* C4: a success response carries the bytes one successful invocation wrote,
\* never a file that a failed or timed-out invocation wrote.
C4_NoPartialOutput ==
    \A r \in Reqs :
        (pc[r] = "responded" /\ response[r].status = 200) =>
            /\ response[r].body.ok
            /\ response[r].body.by \in 1..Len(invs[r])
            /\ invs[r][response[r].body.by].ok
            /\ invs[r][response[r].body.by].size = response[r].body.size

\* C5: when the first search invocation fails, exactly one fallback invocation
\* at MIN_DPI follows; its output is the result when it succeeds, and an error
\* is returned only when it fails too.
C5_FallbackOnce ==
    \A r \in Reqs :
        (pc[r] = "responded" /\ Len(invs[r]) >= 1 /\ invs[r][1].kind = "search" /\ ~invs[r][1].ok) =>
            /\ Len(invs[r]) = 2
            /\ invs[r][2].kind = "fallback"
            /\ invs[r][2].dpi = 72 * SCALE
            /\ invs[r][2].knob = 72
            /\ invs[r][2].ok =>
                  /\ response[r].status = 200
                  /\ response[r].body.by = 2
                  /\ response[r].body.size = invs[r][2].size
            /\ ~invs[r][2].ok => response[r].status = 500

\* C6: a failing search invocation that follows a successful one is the last
\* invocation of the request (no fallback) and the response is a success
\* carrying the best candidate seen; a tool failure becomes an error response
\* only on the single-pass path or when the fallback fails.
C6_FailureRecovered ==
    \A r \in Reqs :
        pc[r] = "responded" =>
            /\ \A k \in 1..Len(invs[r]) :
                  (invs[r][k].kind = "search" /\ ~invs[r][k].ok /\ SearchSuccesses(r) # {}) =>
                      /\ k = Len(invs[r])
                      /\ response[r].status = 200
                      /\ response[r].body.ok
                      /\ \A j \in SearchSuccesses(r) :
                            Distance(r, response[r].body.size) <= Distance(r, invs[r][j].size)
            /\ response[r].error \in {"Ghostscript failed", "Compression error", "Compression failed"} =>
                  /\ invs[r][Len(invs[r])].kind \in {"single", "fallback"}
                  /\ ~invs[r][Len(invs[r])].ok

\* a targetSizeMB was supplied and is not a positive number
InvalidTarget(raw) ==
    /\ raw # FormNone
    /\ raw # <<>>
    /\ \/ ParseFloat(raw).kind \in {"err", "nan"}
       \/ ParseFloat(raw).kind = "num" /\ ParseFloat(raw).num <= 0

\* C7: a request whose targetSizeMB is non-numeric, zero, negative or NaN
\* never reaches the single-pass or search path and is answered with a
\* client error.
C7_InvalidTargetRejected ==
    \A r \in Reqs :
        (GS_BIN # None /\ req[r].hasFile /\ InvalidTarget(req[r].targetSizeMB)) =>
            /\ pc[r] \notin Processing
            /\ pc[r] = "responded" => response[r].status = 400

\* the request is one the handler rejects: no file, empty filename, extension
\* other than pdf, more than 200 MB, or a targetSizeMB that is not a number
Rejected(q) ==
    \/ ~q.hasFile
    \/ q.filename = <<>>
    \/ ~allowed_file(q.filename)
    \/ q.size > 200 * 1024 * 1024
    \/ ParseTarget(q.targetSizeMB).kind = "err"

\* C8: a rejected request is answered with an error while no temporary
\* directory or file was created and no invocation was made.
C8_RejectedBeforeResources ==
    \A r \in Reqs :
        (pc[r] # "idle" /\ Rejected(req[r])) =>
            /\ tmpCreated[r] = 0
            /\ ~tmpdir[r]
            /\ files[r] = EmptyDir
            /\ invs[r] = <<>>
            /\ pc[r] \in {"validate", "responded"}
            /\ pc[r] = "responded" => response[r].status \in {400, 500} /\ response[r].error # None

C8_Witness ==
    /\ pc[1] = "responded"
    /\ GS_BIN # None
    /\ req[1].size > 200 * 1024 * 1024
    /\ allowed_file(req[1].filename)
    /\ response[1].status = 400
    /\ tmpCreated[1] = 0

\* C9: with GS_BIN None after startup every request is answered with the fixed
\* service-unavailable error, with no invocation, no temporary resource and no
\* further probe for the tool; GS_BIN is never written after startup.
C9_ToolAbsent ==
    /\ [](booted /\ GS_BIN = None =>
            /\ probes = 1
            /\ \A r \in Reqs :
                  /\ invs[r] = <<>>
                  /\ tmpCreated[r] = 0
                  /\ ~tmpdir[r]
                  /\ files[r] = EmptyDir
                  /\ pc[r] \in {"idle", "validate", "responded"}
                  /\ pc[r] = "responded" =>
                        response[r] = ErrorResponse(500, "Ghostscript not available on server"))
    /\ [][booted => GS_BIN' = GS_BIN /\ probes' = probes]_vars

C9_Witness ==
    /\ booted
    /\ GS_BIN = None
    /\ pc[1] = "responded"
    /\ req[1].hasFile
    /\ allowed_file(req[1].filename)
    /\ req[1].targetSizeMB = <<"5">>
    /\ response[1].status = 500

\* C10: when the response of a request that created temporary files is
\* produced, its temporary directory and every file in it are gone.
C10_TempFilesRemoved ==
    \A r \in Reqs :
        (pc[r] \in {"responded", "idle"}) => files[r] = EmptyDir /\ ~tmpdir[r]

C10_Witness ==
    /\ pc[1] = "responded"
    /\ tmpCreated[1] > 0
    /\ Len(invs[1]) >= 3
    /\ ~invs[1][Len(invs[1])].ok
    /\ response[1].status = 200
    /\ files[1] = EmptyDir

\* --------------------------------------------------- search path vocabulary
\* the search loop of r is over
SearchOver(r) == pc[r] \in {"resolve", "responded"}

\* r made search invocations only, and all of them succeeded
AllSearchOk(r) ==
    /\ Len(invs[r]) >= 1
    /\ \A k \in 1..Len(invs[r]) : invs[r][k].kind = "search" /\ invs[r][k].ok

\* the k-th invocation of r is a successful search invocation within 10 KiB of the target
EarlyStopAt(r, k) ==
    /\ invs[r][k].kind = "search"
    /\ invs[r][k].ok
    /\ Distance(r, invs[r][k].size) <= 10240

NoEarlyStop(r) == \A k \in 1..Len(invs[r]) : ~EarlyStopAt(r, k)

\* C11: tier medium, target below the original size, every invocation
\* succeeding: the search starts from [72, 200], the range stop does not fire
\* before the 8th iteration, and the search ends on a candidate within 10 KiB
\* of the target or after exactly 8 iterations.
C11_MediumSearch ==
    \A r \in Reqs :
        (quality[r] = "medium" /\ pc[r] \in {"target", "loop", "resolve", "responded"}
            /\ ~NoTargetOrAtLeastOriginal(r)) =>
            /\ (pc[r] \in {"target", "loop"} /\ invs[r] = <<>>) =>
                  low[r] = 72 * SCALE /\ high[r] = 200 * SCALE
            /\ (AllSearchOk(r) /\ Len(invs[r]) < 8) => high[r] - low[r] >= SCALE
            /\ (AllSearchOk(r) /\ SearchOver(r)) =>
                  \/ EarlyStopAt(r, Len(invs[r]))
                  \/ Len(invs[r]) = 8 /\ NoEarlyStop(r)

C11_Witness ==
    /\ quality[1] = "medium"
    /\ pc[1] = "responded"
    /\ AllSearchOk(1)
    /\ NoEarlyStop(1)
    /\ Len(invs[1]) = 8
    /\ response[1].status = 200

\* r is on the search path and its bounds are initialised
Searching(r) == pc[r] \in {"target", "loop", "resolve"} \/ (pc[r] = "responded" /\ high[r] # 0)

\* C13: during a search low <= high, 72 <= low and high <= the tier's starting
\* resolution; every resolution passed to the tool by the loop, and its
\* truncation, lies in [72, starting resolution]; the fallback uses exactly 72.
C13_BoundsClamped ==
    \A r \in Reqs :
        Searching(r) =>
            /\ low[r] <= high[r]
            /\ 72 * SCALE <= low[r]
            /\ high[r] <= TierResolution(quality[r]) * SCALE
            /\ \A k \in 1..Len(invs[r]) :
                  /\ invs[r][k].kind = "search" =>
                        /\ 72 * SCALE <= invs[r][k].dpi
                        /\ invs[r][k].dpi <= TierResolution(quality[r]) * SCALE
                        /\ 72 <= invs[r][k].knob
                        /\ invs[r][k].knob <= TierResolution(quality[r])
                  /\ invs[r][k].kind = "fallback" =>
                        invs[r][k].dpi = 72 * SCALE /\ invs[r][k].knob = 72
                  /\ invs[r][k].kind # "single"

C13_Witness ==
    /\ pc[1] = "loop"
    /\ quality[1] = "high"
    /\ Len(invs[1]) = 7
    /\ low[1] > 72 * SCALE
    /\ high[1] < 300 * SCALE
    /\ high[1] - low[1] < 2 * SCALE

\* the last invocation recorded for r after a step
LastInv(log) == log[Len(log)]

\* C14: across an iteration of the search loop the best distance does not
\* increase, and the best-candidate record (path and resolution) is replaced
\* only by the candidate just produced when its distance to the target is
\* strictly smaller than the recorded one; on a tie the record is kept.
C14_BestMonotone ==
    [][ \A r \in Reqs :
          (pc[r] = "loop" /\ invs'[r] # invs[r]) =>
              LET c == LastInv(invs'[r])
                  d == Abs(c.size - target_bytes[r])
                  kept == /\ best_size_diff'[r] = best_size_diff[r]
                          /\ best_candidate'[r] = best_candidate[r]
                          /\ best_dpi'[r] = best_dpi[r]
                  replaced == /\ best_size_diff'[r] = d
                              /\ best_candidate'[r] = c.path
                              /\ best_dpi'[r] = c.knob
              IN  /\ best_size_diff[r] # INF_DIFF =>
                        best_size_diff'[r] # INF_DIFF /\ best_size_diff'[r] <= best_size_diff[r]
                  /\ IF c.ok /\ (best_size_diff[r] = INF_DIFF \/ d < best_size_diff[r])
                     THEN replaced
                     ELSE kept ]_vars

\* a tie: the second candidate is as far from the target as the first, which is kept
C14_Witness ==
    /\ pc[1] = "loop"
    /\ Len(invs[1]) = 2
    /\ invs[1][1].ok /\ invs[1][2].ok
    /\ invs[1][1].size = invs[1][2].size
    /\ invs[1][1].knob # invs[1][2].knob
    /\ best_candidate[1] = invs[1][1].path
    /\ best_dpi[1] = invs[1][1].knob

\* C15: an iteration that reaches the bisection step changes exactly one bound:
\* high becomes mid when the candidate is larger than the target, low becomes
\* mid otherwise; a failing iteration or one that stops on the 10 KiB
\* tolerance changes neither bound.
C15_OneBoundMoves ==
    [][ \A r \in Reqs :
          (pc[r] = "loop" /\ invs'[r] # invs[r]) =>
              LET c == LastInv(invs'[r])
                  d == Abs(c.size - target_bytes[r])
              IN  /\ 2 * c.dpi = low[r] + high[r]
                  /\ IF ~c.ok \/ d <= 10240
                     THEN low'[r] = low[r] /\ high'[r] = high[r]
                     ELSE IF c.size > target_bytes[r]
                          THEN high'[r] = c.dpi /\ low'[r] = low[r] /\ high'[r] # high[r]
                          ELSE low'[r] = c.dpi /\ high'[r] = high[r] /\ low'[r] # low[r] ]_vars

C15_Witness ==
    /\ pc[1] = "loop"
    /\ Len(invs[1]) = 2
    /\ invs[1][1].ok /\ invs[1][1].size > target_bytes[1]
    /\ invs[1][2].ok /\ invs[1][2].size < target_bytes[1]
    /\ high[1] = invs[1][1].dpi
    /\ low[1] = invs[1][2].dpi

RECURSIVE Pow2(_)
Pow2(n) == IF n = 0 THEN 1 ELSE 2 * Pow2(n - 1)

\* the bisection steps r has completed: successful search invocations that
\* did not stop on the tolerance
BisectionSteps(r) ==
    Cardinality({ k \in 1..Len(invs[r]) :
                    invs[r][k].kind = "search" /\ invs[r][k].ok /\ ~EarlyStopAt(r, k) })

SearchInvocations(r) == Cardinality({ k \in 1..Len(invs[r]) : invs[r][k].kind = "search" })

\* C18: after k bisection steps high - low is exactly (start - 72) / 2^k; a
\* tier-low search makes at most 7 invocations, and a search with no failure
\* and no early stop makes exactly 7 invocations for tier low and exactly 8
\* for tiers medium and high, where the range stop cannot fire earlier.
C18_RangeHalves ==
    \A r \in Reqs :
        (Searching(r) /\ pc[r] # "target") =>
            /\ (high[r] - low[r]) * Pow2(BisectionSteps(r))
                  = (TierResolution(quality[r]) - 72) * SCALE
            /\ quality[r] = "low" => SearchInvocations(r) <= 7
            /\ (AllSearchOk(r) /\ NoEarlyStop(r) /\ SearchOver(r)) =>
                  Len(invs[r]) = (IF quality[r] = "low" THEN 7 ELSE 8)
            /\ (AllSearchOk(r) /\ NoEarlyStop(r) /\ quality[r] # "low" /\ Len(invs[r]) < 8) =>
                  pc[r] = "loop" /\ high[r] - low[r] >= SCALE

C18_Witness ==
    /\ pc[1] = "resolve"
    /\ quality[1] = "low"
    /\ AllSearchOk(1)
    /\ NoEarlyStop(1)
    /\ Len(invs[1]) = 7
    /\ (high[1] - low[1]) * 128 = 78 * SCALE

\* C19: when a search invocation lands within 10240 bytes of the target it is
\* the last invocation of the request, its candidate is the recorded best
\* candidate, and a returned document is within 10240 bytes of the target.
C19_EarlyStop ==
    \A r \in Reqs :
        \A k \in 1..Len(invs[r]) :
            EarlyStopAt(r, k) =>
                /\ k = Len(invs[r])
                /\ SearchOver(r)
                /\ best_candidate[r] = invs[r][k].path
                /\ best_dpi[r] = invs[r][k].knob
                /\ best_size_diff[r] = Distance(r, invs[r][k].size)
                /\ (pc[r] = "responded" /\ response[r].status = 200) =>
                      /\ Distance(r, response[r].body.size) <= 10240
                      /\ response[r].body.by = k

C19_Witness ==
    /\ pc[1] = "responded"
    /\ Len(invs[1]) = 3
    /\ EarlyStopAt(1, 3)
    /\ response[1].status = 200
    /\ response[1].body.by = 3

\* C20: within one search the truncated resolutions int(mid) of the
\* invocations are pairwise distinct, so no two iterations write the same
\* out_<int(mid)>.pdf.
C20_DistinctKnobs ==
    \A r \in Reqs :
        \A j, k \in 1..Len(invs[r]) :
            (j # k /\ invs[r][j].kind = "search" /\ invs[r][k].kind = "search") =>
                /\ invs[r][j].knob # invs[r][k].knob
                /\ invs[r][j].path # invs[r][k].path

\* the search of r ran all MAX_ITERATIONS iterations, none failed and none
\* stopped on the tolerance
Exhausted(r) ==
    /\ AllSearchOk(r)
    /\ NoEarlyStop(r)
    /\ Len(invs[r]) = MAX_ITERATIONS

Local(r) ==
    << pc[r], req[r], quality[r], target_size_mb[r], target_bytes[r], low[r], high[r],
       best_candidate[r], best_size_diff[r], best_dpi[r], iter[r], tmpdir[r], files[r],
       response[r], invs[r], tmpCreated[r] >>

Local1 == Local(1)
Local2 == Local(2)

\* C16: with two requests interleaved, the search state, the temporary files,
\* the invocations and the response of a request change only by steps that
\* request takes when it is served alone, and the tool path, the only shared
\* data, does not change after startup.
C16_Isolated ==
    /\ [][Handle(1)]_Local1
    /\ [][Handle(2)]_Local2
    /\ [][booted => GS_BIN' = GS_BIN]_GS_BIN

C16_Witness ==
    /\ pc[1] = "loop"
    /\ pc[2] = "loop"
    /\ Len(invs[1]) = 3
    /\ Len(invs[2]) = 1
    /\ low[1] # low[2]
    /\ files[1] # files[2]
    /\ invs[1][1].ok
    /\ invs[2][1].ok

====
